---- MODULE Spec2Model ----
(***************************************************************************)
(* A model of lutris/util/linux.py: the LinuxSystem capability cache       *)
(* (architecture resolution, the shared library inventory read from        *)
(* `ldconfig -p`, the per-architecture requirement cache and its queries,  *)
(* and the library folder iterator) and the SharedLibrary record.          *)
(*                                                                         *)
(* Strings are sequences of chunks.  The characters the code looks for     *)
(* (tab, space, parentheses, comma, slash, hyphen, underscore) and "=>"    *)
(* are chunks of their own and never occur inside another chunk, so that   *)
(* every substring test, split, strip and replace of the code is a test,   *)
(* split, strip and replace of whole chunks.                               *)
(***************************************************************************)
EXTENDS Naturals, Sequences, FiniteSets, TLC

VARIABLES
    pc,                 \* position of LinuxSystem.__init__: new, commands, arch, libs, ready, raised
    machine,            \* what platform.machine() returns on this host
    amd,                \* what drivers.is_amd() returns on this host
    fs,                 \* the filesystem: [links, dirs]
    commands,           \* _cache["COMMANDS"]: the commands found
    arch,               \* self.arch
    ldconfig_output,    \* what `ldconfig -p` printed, split in lines (<<>> until read)
    shared_libraries,   \* self.shared_libraries: defaultdict(list), name -> records
    libraries,          \* _cache["LIBRARIES"]: arch -> defaultdict(list), req -> sonames
    result,             \* what the last query returned: [op, arg, value]
    nqueries,           \* number of queries made
    it,                 \* position of the iter_lib_folders generator
    exported_lib_folders, \* its local set
    yielded             \* what it yielded so far: <<[path, src]>>, src 0 = inventory loop, i = pair i

vars == <<pc, machine, amd, fs, commands, arch, ldconfig_output, shared_libraries,
          libraries, result, nqueries, it, exported_lib_folders, yielded>>

(* ------------------------------ strings ------------------------------ *)

TAB == "\t"
SP == " "
SLASH == "/"
COMMA == ","
HYPHEN == "-"
UNDERSCORE == "_"

\* Python's None: a value no string equals.
None == <<"<None>">>

Whitespace == {SP, TAB}

\* s[i:].startswith(pat), i counted from 1
StartsAt(s, pat, i) ==
    /\ i >= 1
    /\ i + Len(pat) - 1 <= Len(s)
    /\ SubSeq(s, i, i + Len(pat) - 1) = pat

\* pat in s
Contains(s, pat) == \E i \in 1..(Len(s) + 1) : StartsAt(s, pat, i)

SetMax(S) == CHOOSE x \in S : \A y \in S : y <= x

RECURSIVE LStrip(_, _)
LStrip(s, chars) ==
    IF s # <<>> /\ Head(s) \in chars THEN LStrip(Tail(s), chars) ELSE s

RECURSIVE RStrip(_, _)
RStrip(s, chars) ==
    IF s # <<>> /\ s[Len(s)] \in chars THEN RStrip(SubSeq(s, 1, Len(s) - 1), chars) ELSE s

\* s.strip(chars)
Strip(s, chars) == RStrip(LStrip(s, chars), chars)

RECURSIVE Split(_, _)
\* s.split(sep) for a one-chunk separator: always at least one part
Split(s, sep) ==
    IF \E i \in 1..Len(s) : s[i] = sep
    THEN LET i == CHOOSE k \in 1..Len(s) : s[k] = sep /\ \A j \in 1..(k - 1) : s[j] # sep
         IN  <<SubSeq(s, 1, i - 1)>> \o Split(SubSeq(s, i + 1, Len(s)), sep)
    ELSE <<s>>

\* s.replace(old, new) for one-chunk old and new
Replace(s, old, new) == [i \in 1..Len(s) |-> IF s[i] = old THEN new ELSE s[i]]

\* the elements of a sequence
Range(s) == {s[i] : i \in 1..Len(s)}

(* ------------------------- SYSTEM_COMPONENTS ------------------------- *)

X86_64 == <<"x86", UNDERSCORE, "64">>
I386 == <<"i386">>
ARMV7 == <<"armv7">>

libGL == <<"libGL.so.1">>
libvulkan == <<"libvulkan.so.1">>
libsqlite3 == <<"libsqlite3.so.0">>
libvulkan_radeon == <<"libvulkan", UNDERSCORE, "radeon.so">>
libgamemodeauto == <<"libgamemodeauto.so">>
libgnutls == <<"libgnutls.so.30">>

\* SYSTEM_COMPONENTS["LIBRARIES"]
LIBRARIES ==
    [OPENGL |-> <<libGL>>,
     VULKAN |-> <<libvulkan>>,
     WINE |-> <<libsqlite3>>,
     RADEON |-> <<libvulkan_radeon>>,
     GAMEMODE |-> <<libgamemodeauto>>,
     GNUTLS |-> <<libgnutls>>]

required_components == <<"OPENGL", "VULKAN", "GNUTLS">>
optional_components == <<"WINE", "GAMEMODE">>

(* --------------------------- architecture ---------------------------- *)

\* LinuxSystem.get_arch, of platform.machine()
get_arch(m) ==
    IF m = X86_64 THEN X86_64
    ELSE IF m \in {<<"i386">>, <<"i686">>} THEN I386
    ELSE IF Contains(m, ARMV7) THEN ARMV7
    ELSE None

\* the host's own architecture alone when it is not x86_64
RuntimeArchsOf_own_arch(a) == IF a = X86_64 THEN <<I386, X86_64>> ELSE <<a>>

RuntimeArchsOf(a) == IF a = X86_64 THEN <<I386, X86_64>> ELSE <<I386>>

\* LinuxSystem.runtime_architectures
runtime_architectures == RuntimeArchsOf(arch)

\* LinuxSystem.get_requirements
get_requirements(include_optional) ==
    required_components
        \o (IF include_optional
            THEN optional_components \o (IF amd THEN <<"RADEON">> ELSE <<>>)
            ELSE <<>>)

\* LinuxSystem.requirements
requirements == get_requirements(TRUE)

(* --------------------------- SharedLibrary --------------------------- *)

\* the literal " (" of the ldconfig line pattern
OPEN_PAREN == <<SP, "(">>
\* the literal ") => " of the ldconfig line pattern
CLOSE_ARROW == <<")", SP, "=>", SP>>

\* Where re.match(r"^(.*) \((.*)\) => (.*)$", line) can put " (" and ") => ".
OpenAt(line) == {i \in 1..Len(line) : StartsAt(line, OPEN_PAREN, i)}
CloseAt(line) == {j \in 1..Len(line) : StartsAt(line, CLOSE_ARROW, j)}

\* whether the pattern matches the whole line
lib_match(line) ==
    \E i \in OpenAt(line) : \E j \in CloseAt(line) : j >= i + Len(OPEN_PAREN)

\* SharedLibrary.__init__
SharedLibrary(name, flags, path) ==
    [name |-> name,
     flags |-> [k \in 1..Len(Split(flags, COMMA)) |-> Strip(Split(flags, COMMA)[k], Whitespace)],
     path |-> path]

\* SharedLibrary.new_from_ldconfig on a line the pattern matches: the groups are
\* greedy, so the first group ends at the last " (" that a ") => " follows and the
\* second at the last ") => ".
new_from_ldconfig(line) ==
    LET i == SetMax({k \in OpenAt(line) : \E j \in CloseAt(line) : j >= k + Len(OPEN_PAREN)})
        j == SetMax({k \in CloseAt(line) : k >= i + Len(OPEN_PAREN)})
    IN  SharedLibrary(SubSeq(line, 1, i - 1),
                      SubSeq(line, i + Len(OPEN_PAREN), j - 1),
                      SubSeq(line, j + Len(CLOSE_ARROW), Len(line)))

default_arch == I386
detected_arch == <<<<"x86", HYPHEN, "64">>, <<"x32">>>>

\* SharedLibrary.arch
lib_arch(lib) ==
    IF \E k \in 1..Len(detected_arch) : detected_arch[k] \in Range(lib.flags)
    THEN LET k == CHOOSE n \in 1..Len(detected_arch) :
                      /\ detected_arch[n] \in Range(lib.flags)
                      /\ \A m \in 1..(n - 1) : detected_arch[m] \notin Range(lib.flags)
         IN  Replace(detected_arch[k], HYPHEN, UNDERSCORE)
    ELSE default_arch

\* os.path.dirname
dirname(p) ==
    LET i == IF \E k \in 1..Len(p) : p[k] = SLASH
             THEN SetMax({k \in 1..Len(p) : p[k] = SLASH}) ELSE 0
        head == SubSeq(p, 1, i)
    IN  IF head # <<>> /\ Range(head) # {SLASH} THEN RStrip(head, {SLASH}) ELSE head

\* SharedLibrary.dirname
lib_dirname(lib) == dirname(lib.path)

(* ------------------------- library inventory ------------------------- *)

\* A dict is the sequence of its items [key, val] in insertion order.
Keys(d) == {d[i].key : i \in 1..Len(d)}

\* d[k] of a defaultdict(list), read without inserting
Get(d, k) ==
    IF k \in Keys(d) THEN d[CHOOSE i \in 1..Len(d) : d[i].key = k].val ELSE <<>>

\* the defaultdict after d[k] was evaluated: a missing key is inserted
Touch(d, k) == IF k \in Keys(d) THEN d ELSE Append(d, [key |-> k, val |-> <<>>])

\* the defaultdict after d[k].append(x)
Append_to(d, k, x) ==
    [i \in 1..Len(Touch(d, k)) |->
        IF Touch(d, k)[i].key = k
        THEN [key |-> k, val |-> Append(Touch(d, k)[i].val, x)]
        ELSE Touch(d, k)[i]]

\* an empty dict
EmptyDict == <<>>

\* LinuxSystem.get: _cache["COMMANDS"].get(command)
get(command) == IF command \in commands THEN <<SLASH, "sbin", SLASH, command>> ELSE None

RECURSIVE TabLines(_)
\* [line.strip("\t") for line in output if line.startswith("\t")]
TabLines(output) ==
    IF output = <<>> THEN <<>>
    ELSE IF StartsAt(Head(output), <<TAB>>, 1)
         THEN <<Strip(Head(output), {TAB})>> \o TabLines(Tail(output))
         ELSE TabLines(Tail(output))

\* LinuxSystem.get_ldconfig_libs, of what `ldconfig -p` prints
get_ldconfig_libs(output) ==
    IF get("ldconfig") = None THEN <<>> ELSE TabLines(output)

\* every parsed library kept, whatever its architecture
ArchKept_always(lib) == TRUE

\* whether a parsed library is kept: lib.arch in self.runtime_architectures
ArchKept(lib) == lib_arch(lib) \in Range(runtime_architectures)

RECURSIVE LoadLibraries(_, _)
\* the loop of get_shared_libraries over the lines, from the dict built so far
LoadLibraries(lines, d) ==
    IF lines = <<>> THEN d
    ELSE IF ~lib_match(Head(lines)) THEN LoadLibraries(Tail(lines), d)
    ELSE LET lib == new_from_ldconfig(Head(lines))
         IN  IF ~ArchKept(lib) THEN LoadLibraries(Tail(lines), d)
             ELSE LoadLibraries(Tail(lines), Append_to(d, lib.name, lib))

\* LinuxSystem.get_shared_libraries
get_shared_libraries(output) == LoadLibraries(get_ldconfig_libs(output), EmptyDict)

(* ------------------------ requirement cache -------------------------- *)

RECURSIVE AppendFound(_, _, _, _)
\* for shared_lib in found: libs[shared_lib.arch][req].append(lib); a library
\* whose architecture is no key of libs raises KeyError.
AppendFound(st, req, lib, found) ==
    IF found = <<>> \/ st.raised THEN st
    ELSE LET a == lib_arch(Head(found))
         IN  IF a \notin DOMAIN st.libs
             THEN [st EXCEPT !.raised = TRUE]
             ELSE AppendFound([st EXCEPT !.libs[a] = Append_to(@, req, lib)],
                              req, lib, Tail(found))

RECURSIVE PopulateLibs(_, _, _)
\* for lib in SYSTEM_COMPONENTS["LIBRARIES"][req]: ... self.shared_libraries[lib] ...
\* Evaluating self.shared_libraries[lib] inserts lib in the defaultdict.
PopulateLibs(st, req, libs) ==
    IF libs = <<>> \/ st.raised THEN st
    ELSE LET touched == [st EXCEPT !.shared = Touch(@, Head(libs))]
         IN  PopulateLibs(AppendFound(touched, req, Head(libs), Get(touched.shared, Head(libs))),
                          req, Tail(libs))

RECURSIVE PopulateReqs(_, _)
\* for req in self.requirements: ...
PopulateReqs(st, reqs) ==
    IF reqs = <<>> \/ st.raised THEN st
    ELSE PopulateReqs(PopulateLibs(st, Head(reqs), LIBRARIES[Head(reqs)]), Tail(reqs))

\* LinuxSystem.populate_libraries: [shared, libs, raised] after it
populate_libraries ==
    PopulateReqs([shared |-> shared_libraries,
                  libs |-> [a \in Range(runtime_architectures) |-> EmptyDict],
                  raised |-> FALSE],
                 requirements)

\* _cache["LIBRARIES"] after _cache["LIBRARIES"][arch][req] was evaluated for
\* every runtime architecture
TouchLibraries(req) ==
    [a \in DOMAIN libraries |->
        IF a \in Range(runtime_architectures) THEN Touch(libraries[a], req) ELSE libraries[a]]

\* get_missing_requirement_libs reading the first architecture's cache for every
\* architecture
get_missing_requirement_libs_first_arch(req) ==
    [k \in 1..Len(runtime_architectures) |->
        Range(LIBRARIES[req]) \ Range(Get(libraries[runtime_architectures[1]], req))]

\* LinuxSystem.get_missing_requirement_libs: one set per runtime architecture
get_missing_requirement_libs(req) ==
    [k \in 1..Len(runtime_architectures) |->
        Range(LIBRARIES[req]) \ Range(Get(libraries[runtime_architectures[k]], req))]

RECURSIVE MissingArchFrom(_, _)
MissingArchFrom(req, k) ==
    IF k > Len(runtime_architectures) THEN <<>>
    ELSE (IF get_missing_requirement_libs(req)[k] # {}
          THEN <<runtime_architectures[k]>> ELSE <<>>) \o MissingArchFrom(req, k + 1)

\* get_missing_lib_arch looking at the first runtime architecture only
get_missing_lib_arch_first_only(requirement) ==
    IF get_missing_requirement_libs(requirement)[1] # {}
    THEN <<runtime_architectures[1]>> ELSE <<>>

\* LinuxSystem.get_missing_lib_arch
get_missing_lib_arch(requirement) == MissingArchFrom(requirement, 1)

\* code points of the characters of a version string
Ord(c) ==
    CASE c = "." -> 46 [] c = "0" -> 48 [] c = "1" -> 49 [] c = "2" -> 50
      [] c = "3" -> 51 [] c = "4" -> 52 [] c = "5" -> 53 [] c = "6" -> 54
      [] c = "7" -> 55 [] c = "8" -> 56 [] c = "9" -> 57

RECURSIVE StrLE(_, _)
\* a <= b of two Python strings, one character per chunk
StrLE(a, b) ==
    IF a = <<>> THEN TRUE
    ELSE IF b = <<>> THEN FALSE
    ELSE IF Ord(Head(a)) < Ord(Head(b)) THEN TRUE
    ELSE IF Ord(Head(a)) > Ord(Head(b)) THEN FALSE
    ELSE StrLE(Tail(a), Tail(b))

ACO == "ACO"

\* LinuxSystem.is_feature_supported; mesa_version is
\* glxinfo.GLX_MESA_query_renderer.version, None when the attribute is missing
is_feature_supported(feature, mesa_version) ==
    IF feature = ACO
    THEN IF mesa_version = None THEN FALSE ELSE StrLE(<<"1", "9", ".", "3">>, mesa_version)
    ELSE get_missing_requirement_libs(feature)[1] = {}

\* LinuxSystem.is_vulkan_supported; vk is what vkquery.is_vulkan_supported() returns
is_vulkan_supported(vk) == get_missing_lib_arch("VULKAN") = <<>> /\ vk

(* ---------------------------- filesystem ----------------------------- *)

\* the components of a path
Components(p) == SelectSeq(Split(p, SLASH), LAMBDA c : c # <<>>)

RECURSIVE JoinPath(_)
\* the absolute path of a sequence of components
JoinPath(comps) ==
    IF comps = <<>> THEN <<>> ELSE <<SLASH>> \o Head(comps) \o JoinPath(Tail(comps))

RECURSIVE Resolve(_, _)
\* the walk of os.path.realpath: a prefix that is a symbolic link is replaced
\* by its target, a component that does not exist is kept
Resolve(done, rest) ==
    IF rest = <<>> THEN done
    ELSE IF JoinPath(Append(done, Head(rest))) \in DOMAIN fs.links
         THEN Resolve(<<>>, Components(fs.links[JoinPath(Append(done, Head(rest)))]) \o Tail(rest))
         ELSE Resolve(Append(done, Head(rest)), Tail(rest))

\* os.path.realpath
realpath(p) == JoinPath(Resolve(<<>>, Components(p)))

IsPrefix(a, b) == Len(a) <= Len(b) /\ SubSeq(b, 1, Len(a)) = a

\* os.path.exists: the path resolves to a directory that was made (fs.dirs
\* are the directories made, each with its parents, as by mkdir -p)
path_exists(p) ==
    \E d \in fs.dirs : IsPrefix(Components(realpath(p)), Components(realpath(d)))

(* -------------------------- library folders -------------------------- *)

slash_usr == <<SLASH, "usr">>
slash_lib == <<SLASH, "lib">>
slash_lib32 == <<SLASH, "lib32">>
slash_lib64 == <<SLASH, "lib64">>
i386_linux_gnu == <<SLASH, "i386", HYPHEN, "linux", HYPHEN, "gnu">>
x86_64_linux_gnu == <<SLASH, "x86", UNDERSCORE, "64", HYPHEN, "linux", HYPHEN, "gnu">>
opt_32_lib == <<SLASH, "opt", SLASH, "32", SLASH, "lib">>

\* LinuxSystem.multiarch_lib_folders
multiarch_lib_folders ==
    <<<<slash_lib, slash_lib64>>,
      <<slash_lib32, slash_lib64>>,
      <<slash_usr \o slash_lib, slash_usr \o slash_lib64>>,
      <<slash_usr \o slash_lib32, slash_usr \o slash_lib64>>,
      <<slash_lib \o i386_linux_gnu, slash_lib \o x86_64_linux_gnu>>,
      <<slash_usr \o slash_lib \o i386_linux_gnu, slash_usr \o slash_lib \o x86_64_linux_gnu>>,
      <<slash_usr \o slash_lib, opt_32_lib>>>>

RECURSIVE DictDirnames(_)
\* lib.dirname for lib_list in self.shared_libraries.values() for lib in lib_list
DictDirnames(d) ==
    IF d = <<>> THEN <<>>
    ELSE [i \in 1..Len(Head(d).val) |-> lib_dirname(Head(d).val[i])] \o DictDirnames(Tail(d))

\* Counter(elems)[x]
Count(elems, x) == Cardinality({i \in 1..Len(elems) : elems[i] = x})

\* the keys in the order they were first met, whatever their counts
MostCommon_first_met(elems, taken) ==
    LET firsts == {i \in 1..Len(elems) : \A j \in 1..(i - 1) : elems[j] # elems[i]}
    IN  [k \in 1..Cardinality(firsts) |->
            elems[CHOOSE i \in firsts : Cardinality({j \in firsts : j <= i}) = k]]

RECURSIVE MostCommon(_, _)
\* Counter(elems).most_common(), the keys only: by count, largest first, equal
\* counts in the order the keys were first met
MostCommon(elems, taken) ==
    IF Range(elems) \subseteq taken THEN <<>>
    ELSE LET left == {i \in 1..Len(elems) : elems[i] \notin taken}
             top == {i \in left : \A j \in left : Count(elems, elems[j]) <= Count(elems, elems[i])}
             first == elems[CHOOSE i \in top : \A j \in top : i <= j]
         IN  <<first>> \o MostCommon(elems, taken \cup {first})

\* LinuxSystem.get_lib_folders
get_lib_folders == MostCommon(DictDirnames(shared_libraries), {})

\* the body of the second loop without the realpath comparison
PairYields_no_realpath(lib_paths, exported) ==
    LET paths == IF arch # X86_64 THEN <<lib_paths[1]>> ELSE lib_paths
    IN  IF \A k \in 1..Len(paths) : path_exists(paths[k])
        THEN (IF paths[1] \notin exported THEN <<paths[1]>> ELSE <<>>)
             \o (IF Len(paths) # 1 /\ paths[2] \notin exported THEN <<paths[2]>> ELSE <<>>)
        ELSE <<>>

\* the body of the second loop testing each path for itself, not all of them
PairYields_each_exists(lib_paths, exported) ==
    LET paths == IF arch # X86_64 THEN <<lib_paths[1]>> ELSE lib_paths
    IN  IF arch = X86_64 /\ realpath(lib_paths[1]) = realpath(lib_paths[2]) THEN <<>>
        ELSE (IF path_exists(paths[1]) /\ paths[1] \notin exported THEN <<paths[1]>> ELSE <<>>)
             \o (IF Len(paths) # 1 /\ path_exists(paths[2]) /\ paths[2] \notin exported
                 THEN <<paths[2]>> ELSE <<>>)

\* what the second loop of iter_lib_folders yields for one entry of the table
PairYields(lib_paths, exported) ==
    LET paths == IF arch # X86_64 THEN <<lib_paths[1]>> ELSE lib_paths
    IN  IF arch = X86_64 /\ realpath(lib_paths[1]) = realpath(lib_paths[2]) THEN <<>>
        ELSE IF \A k \in 1..Len(paths) : path_exists(paths[k])
             THEN (IF paths[1] \notin exported THEN <<paths[1]>> ELSE <<>>)
                  \o (IF Len(paths) # 1 /\ paths[2] \notin exported THEN <<paths[2]>> ELSE <<>>)
             ELSE <<>>

\* the yields of one step, each with the step that made it
Tagged(paths, src) == [k \in 1..Len(paths) |-> [path |-> paths[k], src |-> src]]

(* ------------------------------ inputs ------------------------------- *)

MaxLines == 3
MaxQueries == 1
MaxFsObjects == 2

\* the sequences of at most n different elements of S
SeqsUpTo(S, n) ==
    UNION {{q \in [1..k -> S] : \A i, j \in 1..k : q[i] = q[j] => i = j} : k \in 0..n}

\* platform.machine() on the hosts considered
Machines ==
    {X86_64, <<"i386">>, <<"i686">>, <<"armv7", "l">>, <<"aarch64">>}
FolderMachines == {X86_64, <<"i686">>}

libc6 == <<"libc6">>
x86_64_flag == <<"x86", HYPHEN, "64">>
x32_flag == <<"x32">>
os_abi == <<"OS", SP, "ABI:", SP, "Linux", SP, "3.2.0">>

\* One line of `ldconfig -p` as it is made: the library's name, its flags and
\* its path, and the shape of the line printed for it.
Entry(name, flags, path, shape) ==
    [name |-> name, flags |-> flags, path |-> path, shape |-> shape]

RECURSIVE JoinFlags(_, _)
\* the flags as ldconfig prints them: "libc6,x86-64, OS ABI: Linux 3.2.0"
JoinFlags(flags, k) ==
    IF k > Len(flags) THEN <<>>
    ELSE (IF k = 1 THEN <<>> ELSE IF k = 2 THEN <<COMMA>> ELSE <<COMMA, SP>>)
         \o flags[k] \o JoinFlags(flags, k + 1)

\* the line printed for an entry
Render(e) ==
    CASE e.shape = "ok" ->
            <<TAB>> \o e.name \o OPEN_PAREN \o JoinFlags(e.flags, 1) \o CLOSE_ARROW \o e.path
      [] e.shape = "no_parens" ->
            <<TAB>> \o e.name \o <<SP, "=>", SP>> \o e.path
      [] e.shape = "no_tab" ->
            e.name \o OPEN_PAREN \o JoinFlags(e.flags, 1) \o CLOSE_ARROW \o e.path

usr_lib == slash_usr \o slash_lib
usr_lib64 == slash_usr \o slash_lib64
usr_libx32 == slash_usr \o <<SLASH, "libx32">>
opt_games_lib == <<SLASH, "opt", SLASH, "games", SLASH, "lib">>

\* the lines of the requirement queries
Entries ==
    {Entry(libGL, <<libc6, x86_64_flag>>, usr_lib64 \o <<SLASH>> \o libGL, "ok"),
     Entry(libvulkan, <<libc6, x86_64_flag, os_abi>>, usr_lib64 \o <<SLASH>> \o libvulkan, "ok"),
     Entry(libvulkan, <<libc6>>, usr_lib \o <<SLASH>> \o libvulkan, "ok"),
     Entry(libvulkan_radeon, <<libc6, x86_64_flag>>, usr_lib64 \o <<SLASH>> \o libvulkan_radeon, "ok"),
     Entry(libGL, <<libc6>>, usr_lib \o <<SLASH>> \o libGL, "no_parens")}

\* the lines of the inventory: also an x32 library and a line without its tab
InventoryEntries ==
    Entries
    \cup {Entry(libvulkan, <<libc6, x32_flag>>, usr_libx32 \o <<SLASH>> \o libvulkan, "ok"),
          Entry(libgnutls, <<libc6>>, usr_lib \o <<SLASH>> \o libgnutls, "no_tab")}

\* the lines of the library folders
FolderEntries ==
    {Entry(libGL, <<libc6, x86_64_flag>>, usr_lib64 \o <<SLASH>> \o libGL, "ok"),
     Entry(libvulkan, <<libc6>>, usr_lib \o <<SLASH>> \o libvulkan, "ok"),
     Entry(libGL, <<libc6>>, opt_games_lib \o <<SLASH>> \o libGL, "ok")}

\* the lines of the ranking of folders: two libraries share /usr/lib64
RankingEntries ==
    FolderEntries
    \cup {Entry(libvulkan, <<libc6, x86_64_flag, os_abi>>, usr_lib64 \o <<SLASH>> \o libvulkan, "ok")}

AllEntries == InventoryEntries \cup FolderEntries \cup RankingEntries

RenderAll(es) == [i \in 1..Len(es) |-> Render(es[i])]

\* what `ldconfig -p` may print
Outputs == {RenderAll(es) : es \in SeqsUpTo(Entries, MaxLines)}
InventoryOutputs == {RenderAll(es) : es \in SeqsUpTo(InventoryEntries, MaxLines)}
FolderOutputs == {RenderAll(es) : es \in SeqsUpTo(FolderEntries, MaxLines)}
RankingOutputs == {RenderAll(es) : es \in SeqsUpTo(RankingEntries, MaxLines)}

\* glxinfo.GLX_MESA_query_renderer.version
MesaVersions == {<<"1", "9", ".", "3">>, <<"1", "9", ".", "2">>, <<"9", ".", "9">>}

\* What may be on disk: a directory (made with its parents), or a symbolic link.
FsObject(kind, path, to) == [kind |-> kind, path |-> path, to |-> to]

TablePaths ==
    UNION {Range(multiarch_lib_folders[i]) : i \in 1..Len(multiarch_lib_folders)}

FsObjects ==
    {FsObject("dir", q, <<>>) : q \in TablePaths}
    \cup {FsObject("link", slash_lib, usr_lib),
          FsObject("link", slash_lib64, usr_lib64),
          FsObject("link", slash_lib64, usr_lib),
          FsObject("link", usr_lib64, usr_lib)}

MakeFs(objs) ==
    [links |-> [q \in {o.path : o \in {x \in objs : x.kind = "link"}} |->
                   (CHOOSE o \in objs : o.kind = "link" /\ o.path = q).to],
     dirs |-> {o.path : o \in {x \in objs : x.kind = "dir"}}]

Filesystems ==
    {MakeFs(objs) : objs \in
        {O \in SUBSET FsObjects :
            /\ Cardinality(O) <= MaxFsObjects
            /\ \A x, y \in O : x.kind = "link" /\ y.kind = "link" /\ x.path = y.path => x = y}}

EmptyFs == MakeFs({})

RankingFsObjects ==
    {FsObject("dir", slash_lib, <<>>),
     FsObject("dir", slash_lib64, <<>>),
     FsObject("dir", usr_lib64, <<>>),
     FsObject("link", slash_lib64, usr_lib64)}

RankingFilesystems ==
    {MakeFs(objs) : objs \in {O \in SUBSET RankingFsObjects : Cardinality(O) <= MaxFsObjects}}

(* ------------------------------ actions ------------------------------ *)

NoResult == [op |-> "none", arg |-> "", env |-> None, value |-> FALSE]

InitWith(machines, amds, filesystems) ==
    /\ pc = "new"
    /\ machine \in machines
    /\ amd \in amds
    /\ fs \in filesystems
    /\ commands = {}
    /\ arch = None
    /\ ldconfig_output = <<>>
    /\ shared_libraries = EmptyDict
    /\ libraries = <<>>
    /\ result = NoResult
    /\ nqueries = 0
    /\ it = 0
    /\ exported_lib_folders = {}
    /\ yielded = <<>>

Init == InitWith(Machines, BOOLEAN, {EmptyFs})

InitFolders == InitWith(FolderMachines, {FALSE}, Filesystems)

\* __init__, the loop over the commands: shutil.which finds ldconfig or not
Init_commands ==
    /\ pc = "new"
    /\ \E found \in SUBSET {"ldconfig"} : commands' = found
    /\ pc' = "commands"
    /\ UNCHANGED <<machine, amd, fs, arch, ldconfig_output, shared_libraries, libraries,
                   result, nqueries, it, exported_lib_folders, yielded>>

\* __init__: self.arch = self.get_arch()
Init_arch ==
    /\ pc = "commands"
    /\ arch' = get_arch(machine)
    /\ pc' = "arch"
    /\ UNCHANGED <<machine, amd, fs, commands, ldconfig_output, shared_libraries, libraries,
                   result, nqueries, it, exported_lib_folders, yielded>>

\* __init__: self.shared_libraries = self.get_shared_libraries(); ldconfig is
\* run only when it was found
Init_shared_libraries(outputs) ==
    /\ pc = "arch"
    /\ \E output \in (IF get("ldconfig") = None THEN {<<>>} ELSE outputs) :
          /\ ldconfig_output' = output
          /\ shared_libraries' = get_shared_libraries(output)
    /\ pc' = "libs"
    /\ UNCHANGED <<machine, amd, fs, commands, arch, libraries,
                   result, nqueries, it, exported_lib_folders, yielded>>

\* __init__: self.populate_libraries()
Init_populate_libraries ==
    /\ pc = "libs"
    /\ shared_libraries' = populate_libraries.shared
    /\ libraries' = populate_libraries.libs
    /\ pc' = IF populate_libraries.raised THEN "raised" ELSE "ready"
    /\ UNCHANGED <<machine, amd, fs, commands, arch, ldconfig_output,
                   result, nqueries, it, exported_lib_folders, yielded>>

Returns(op, arg, env, value) ==
    /\ result' = [op |-> op, arg |-> arg, env |-> env, value |-> value]
    /\ nqueries' = nqueries + 1
    /\ UNCHANGED <<pc, machine, amd, fs, commands, arch, ldconfig_output, shared_libraries,
                   it, exported_lib_folders, yielded>>

CanQuery == pc = "ready" /\ nqueries < MaxQueries

Call_get_missing_requirement_libs ==
    /\ CanQuery
    /\ \E req \in DOMAIN LIBRARIES :
          /\ libraries' = TouchLibraries(req)
          /\ Returns("get_missing_requirement_libs", req, None, get_missing_requirement_libs(req))

Call_get_missing_lib_arch ==
    /\ CanQuery
    /\ \E req \in DOMAIN LIBRARIES :
          /\ libraries' = TouchLibraries(req)
          /\ Returns("get_missing_lib_arch", req, None, get_missing_lib_arch(req))

Call_is_feature_supported ==
    /\ CanQuery
    /\ \/ \E mesa_version \in MesaVersions \cup {None} :
             /\ libraries' = libraries
             /\ Returns("is_feature_supported", ACO, mesa_version,
                        is_feature_supported(ACO, mesa_version))
       \/ \E feature \in DOMAIN LIBRARIES :
             /\ libraries' = TouchLibraries(feature)
             /\ Returns("is_feature_supported", feature, None,
                        is_feature_supported(feature, None))

\* vkquery.is_vulkan_supported() is asked only when no architecture misses a library
Call_is_vulkan_supported ==
    /\ CanQuery
    /\ libraries' = TouchLibraries("VULKAN")
    /\ \E vk \in (IF get_missing_lib_arch("VULKAN") = <<>> THEN BOOLEAN ELSE {FALSE}) :
          Returns("is_vulkan_supported", "VULKAN",
                  IF get_missing_lib_arch("VULKAN") = <<>> THEN <<vk>> ELSE None,
                  is_vulkan_supported(vk))

\* iter_lib_folders, its first loop: every folder of get_lib_folders is yielded
Iter_lib_folders_inventory ==
    /\ pc = "ready"
    /\ it = 0
    /\ exported_lib_folders' = Range(get_lib_folders)
    /\ yielded' = Tagged(get_lib_folders, 0)
    /\ it' = 1
    /\ UNCHANGED <<pc, machine, amd, fs, commands, arch, ldconfig_output, shared_libraries,
                   libraries, result, nqueries>>

\* iter_lib_folders, one round of its second loop
Iter_lib_folders_pair ==
    /\ pc = "ready"
    /\ it \in 1..Len(multiarch_lib_folders)
    /\ yielded' = yielded \o Tagged(PairYields(multiarch_lib_folders[it], exported_lib_folders), it)
    /\ it' = it + 1
    /\ UNCHANGED <<pc, machine, amd, fs, commands, arch, ldconfig_output, shared_libraries,
                   libraries, result, nqueries, exported_lib_folders>>

Next ==
    \/ Init_commands
    \/ Init_arch
    \/ Init_shared_libraries(Outputs)
    \/ Init_populate_libraries
    \/ Call_get_missing_requirement_libs
    \/ Call_get_missing_lib_arch
    \/ Call_is_feature_supported
    \/ Call_is_vulkan_supported

NextFolders ==
    \/ Init_commands
    \/ Init_arch
    \/ Init_shared_libraries(FolderOutputs)
    \/ Init_populate_libraries
    \/ Iter_lib_folders_inventory
    \/ Iter_lib_folders_pair

NextInventory ==
    \/ Init_commands
    \/ Init_arch
    \/ Init_shared_libraries(InventoryOutputs)
    \/ Init_populate_libraries

Spec == Init /\ [][Next]_vars

SpecInventory == Init /\ [][NextInventory]_vars

SpecFolders == InitFolders /\ [][NextFolders]_vars

InitRanking == InitWith(FolderMachines, {FALSE}, RankingFilesystems)

NextRanking ==
    \/ Init_commands
    \/ Init_arch
    \/ Init_shared_libraries(RankingOutputs)
    \/ Init_populate_libraries
    \/ Iter_lib_folders_inventory
    \/ Iter_lib_folders_pair

SpecRanking == InitRanking /\ [][NextRanking]_vars

(* ------------------------------ claims ------------------------------- *)

\* whether the Inventory holds a record of that name tagged with that architecture
HasRecord(soname, a) ==
    \E i \in 1..Len(Get(shared_libraries, soname)) :
        lib_arch(Get(shared_libraries, soname)[i]) = a

\* per runtime architecture, the declared sonames of req the Inventory holds no
\* record of for that architecture
ExpectedMissing(req) ==
    [k \in 1..Len(runtime_architectures) |->
        {soname \in Range(LIBRARIES[req]) : ~HasRecord(soname, runtime_architectures[k])}]

MissingAsExpected(reqs) ==
    pc = "ready" =>
        /\ \A req \in reqs : get_missing_requirement_libs(req) = ExpectedMissing(req)
        /\ result.op = "get_missing_requirement_libs" /\ result.arg \in reqs
              => result.value = ExpectedMissing(result.arg)

\* C1 as claimed: for every requirement of the static table, on every host (AMD
\* GPU or not), get_missing_requirement_libs(req) is, per runtime architecture in
\* order, the declared sonames of req with no Inventory record of that architecture.
C1_missing_every_table_requirement == MissingAsExpected(DOMAIN LIBRARIES)

\* C1 as amended: the same for every requirement of the host's requirement set
\* (OPENGL, VULKAN, GNUTLS, WINE, GAMEMODE, and RADEON only on a host with an AMD
\* GPU); RADEON asked on a host without an AMD GPU is not covered.
C1_missing_host_requirements == MissingAsExpected(Range(requirements))

\* C1's case: on an x86_64 host whose Inventory holds libvulkan.so.1 for x86_64
\* only, the VULKAN query returned the i386 list with it and the x86_64 list empty.
C1_witness ==
    /\ pc = "ready"
    /\ arch = X86_64
    /\ result.op = "get_missing_requirement_libs"
    /\ result.arg = "VULKAN"
    /\ result.value = <<{libvulkan}, {}>>
    /\ HasRecord(libvulkan, X86_64)

\* C2 as claimed: on an x86_64 host, a requirement whose declared sonames all have
\* an x86_64 record in the Inventory is feature-supported, whatever the i386 records.
C2_supported_by_x86_64_records ==
    pc = "ready" /\ arch = X86_64 =>
        /\ \A req \in Range(requirements) :
              (\A soname \in Range(LIBRARIES[req]) : HasRecord(soname, X86_64))
                  => is_feature_supported(req, None)
        /\ result.op = "is_feature_supported" /\ result.arg \in Range(requirements)
              /\ (\A soname \in Range(LIBRARIES[result.arg]) : HasRecord(soname, X86_64))
              => result.value = TRUE

\* the paths yielded so far
YieldedPaths == {yielded[i].path : i \in 1..Len(yielded)}

\* the paths yielded by entry k of the table
YieldedBy(k) == {yielded[i].path : i \in {j \in 1..Len(yielded) : yielded[j].src = k}}

\* the paths yielded before entry k of the table was reached
YieldedBefore(k) == {yielded[i].path : i \in {j \in 1..Len(yielded) : yielded[j].src < k}}

\* iter_lib_folders is exhausted
IterDone == it > Len(multiarch_lib_folders)

SameRealDir(k) ==
    realpath(multiarch_lib_folders[k][1]) = realpath(multiarch_lib_folders[k][2])

\* C3 as claimed: iter_lib_folders never yields the same directory path twice.
C3_no_directory_twice ==
    \A i, j \in 1..Len(yielded) : yielded[i].path = yielded[j].path => i = j

\* C4 as claimed: of a pair of the table whose two paths resolve to the same real
\* directory, the complete output of iter_lib_folders holds at most one path.
C4_at_most_one_side ==
    IterDone =>
        \A k \in 1..Len(multiarch_lib_folders) :
            SameRealDir(k) =>
                ~(/\ multiarch_lib_folders[k][1] \in YieldedPaths
                  /\ multiarch_lib_folders[k][2] \in YieldedPaths)

\* C4 as amended: the table entry of such a pair itself yields neither path on an
\* x86_64 host, and never its second path on another host (both paths can still be
\* yielded, from the Inventory's directories or by other entries of the table).
C4_pair_itself_yields_at_most_one ==
    \A k \in 1..Len(multiarch_lib_folders) :
        SameRealDir(k) =>
            /\ arch = X86_64 => YieldedBy(k) = {}
            /\ arch # X86_64 => YieldedBy(k) \subseteq {multiarch_lib_folders[k][1]}

\* C4's case: the iteration is complete on an x86_64 host where both paths of a
\* pair exist, resolve to the same real directory and are no Inventory directories.
C4_witness ==
    /\ IterDone
    /\ arch = X86_64
    /\ \E k \in 1..Len(multiarch_lib_folders) :
          /\ SameRealDir(k)
          /\ path_exists(multiarch_lib_folders[k][1])
          /\ path_exists(multiarch_lib_folders[k][2])
          /\ multiarch_lib_folders[k][1] \notin exported_lib_folders
          /\ multiarch_lib_folders[k][2] \notin exported_lib_folders

\* what C10 says of a host that is not x86_64: the first path is yielded if it
\* exists and was not yielded before, the second never
FirstPathOnly(k) ==
    /\ path_exists(multiarch_lib_folders[k][1])
          /\ multiarch_lib_folders[k][1] \notin YieldedBefore(k)
          => multiarch_lib_folders[k][1] \in YieldedBy(k)
    /\ YieldedBy(k) \subseteq {multiarch_lib_folders[k][1]}

\* C10 as claimed: on an x86_64 host a pair whose paths resolve to different real
\* directories yields each side that exists and was not yielded before, also when
\* the other side does not exist; on another host see FirstPathOnly.
C10_each_side_independently ==
    \A k \in 1..Len(multiarch_lib_folders) :
        it > k =>
            /\ arch = X86_64 /\ ~SameRealDir(k) =>
                  \A side \in Range(multiarch_lib_folders[k]) :
                      path_exists(side) /\ side \notin YieldedBefore(k)
                          => side \in YieldedBy(k)
            /\ arch # X86_64 => FirstPathOnly(k)

\* C10 as amended: on an x86_64 host such a pair yields only when both sides exist,
\* and then each side that was not yielded before; when a side does not exist the
\* pair yields nothing.  On another host see FirstPathOnly.
C10_both_sides_or_nothing ==
    \A k \in 1..Len(multiarch_lib_folders) :
        it > k =>
            /\ arch = X86_64 /\ ~SameRealDir(k) =>
                  IF \A side \in Range(multiarch_lib_folders[k]) : path_exists(side)
                  THEN \A side \in Range(multiarch_lib_folders[k]) :
                          side \notin YieldedBefore(k) => side \in YieldedBy(k)
                  ELSE YieldedBy(k) = {}
            /\ arch # X86_64 => FirstPathOnly(k)

\* C10's case: on an x86_64 host the iteration is complete, one pair had both
\* sides on disk and yielded both, another had only one side on disk.
C10_witness ==
    /\ IterDone
    /\ arch = X86_64
    /\ \E k \in 1..Len(multiarch_lib_folders) :
          /\ ~SameRealDir(k)
          /\ YieldedBy(k) = Range(multiarch_lib_folders[k])
    /\ \E k \in 1..Len(multiarch_lib_folders) :
          /\ ~SameRealDir(k)
          /\ \E side \in Range(multiarch_lib_folders[k]) :
                path_exists(side) /\ side \notin YieldedBefore(k)
          /\ \E side \in Range(multiarch_lib_folders[k]) : ~path_exists(side)

(* The lines of ldconfig_output as they were made, and what the claims expect
   of them. *)

\* the entry a printed line was made from
EntryOf(line) == CHOOSE e \in AllEntries : Render(e) = line

\* the entries of the lines printed, in order
Listed == [k \in 1..Len(ldconfig_output) |-> EntryOf(ldconfig_output[k])]

\* a line of the listing (it has its tab) of the form NAME (FLAGS) => PATH
WellFormed(e) == e.shape = "ok"

\* a malformed line of the listing
Malformed(e) == e.shape = "no_parens"

\* the architecture the flags of an entry stand for
EntryArch(e) ==
    IF x86_64_flag \in Range(e.flags) THEN <<"x86", "_", "64">>
    ELSE IF x32_flag \in Range(e.flags) THEN <<"x32">>
    ELSE <<"i386">>

Retained(e) == WellFormed(e) /\ EntryArch(e) \in Range(runtime_architectures)

RecordOf(e) == [name |-> e.name, flags |-> e.flags, path |-> e.path]

RECURSIVE RecordsNamed(_, _)
\* the records of the retained entries of that name, in order
RecordsNamed(es, name) ==
    IF es = <<>> THEN <<>>
    ELSE (IF Retained(Head(es)) /\ Head(es).name = name THEN <<RecordOf(Head(es))>> ELSE <<>>)
         \o RecordsNamed(Tail(es), name)

RetainedNames == {e.name : e \in {x \in Range(Listed) : Retained(x)}}

Built == pc \in {"libs", "ready", "raised"}

\* C5: the Inventory maps each library name to exactly the records of the
\* well-formed lines of that name whose architecture is a runtime architecture,
\* in listing order; malformed lines are skipped and the build always completes;
\* no record has an architecture outside the runtime list, x32 least of all.
C5_inventory_of_well_formed_lines ==
    Built =>
        /\ \A e \in AllEntries : Get(shared_libraries, e.name) = RecordsNamed(Listed, e.name)
        /\ \A k \in Keys(shared_libraries) :
              /\ Get(shared_libraries, k) = RecordsNamed(Listed, k)
              /\ \A i \in 1..Len(Get(shared_libraries, k)) :
                    /\ lib_arch(Get(shared_libraries, k)[i]) \in Range(runtime_architectures)
                    /\ lib_arch(Get(shared_libraries, k)[i]) # <<"x32">>
        /\ pc # "raised"

\* C5's case: get_shared_libraries has returned from a listing of three lines, one
\* malformed, one of an x32 library and one whose record is retained.
C5_witness ==
    /\ pc = "libs"
    /\ Len(ldconfig_output) = 3
    /\ \E e \in Range(Listed) : Malformed(e)
    /\ \E e \in Range(Listed) : WellFormed(e) /\ EntryArch(e) = <<"x32">>
    /\ \E e \in Range(Listed) : Retained(e) /\ Get(shared_libraries, e.name) = <<RecordOf(e)>>

\* C6 as claimed: after get_shared_libraries returned the Inventory has an entry
\* for a name only if a retained record has that name, through the rest of
\* construction too; the listing libGL.so.1 x86-64, libvulkan.so.1 x86-64, malformed
\* line leaves exactly 2 entries.
C6_entries_only_of_retained_records ==
    Built =>
        /\ Keys(shared_libraries) = RetainedNames
        /\ Len(shared_libraries) = Cardinality(RetainedNames)

\* C7: is_vulkan_supported() is true exactly when no runtime architecture misses
\* libvulkan.so.1 and the Vulkan API query succeeded; on an x86_64 host a missing
\* i386 libvulkan.so.1 alone makes it false.
C7_vulkan_needs_every_architecture ==
    result.op = "is_vulkan_supported" =>
        /\ result.value =
              (/\ \A k \in 1..Len(runtime_architectures) :
                     get_missing_requirement_libs("VULKAN")[k] = {}
               /\ get_missing_lib_arch("VULKAN") = <<>>
               /\ result.env = <<TRUE>>)
        /\ (get_missing_lib_arch("VULKAN") = <<>>)
              = (\A a \in Range(runtime_architectures) : HasRecord(libvulkan, a))
        /\ arch = X86_64 /\ ~HasRecord(libvulkan, I386) => result.value = FALSE

\* C7's case: on an x86_64 host with libvulkan.so.1 for x86_64 only,
\* is_vulkan_supported() returned false.
C7_witness ==
    /\ result.op = "is_vulkan_supported"
    /\ arch = X86_64
    /\ HasRecord(libvulkan, X86_64)
    /\ ~HasRecord(libvulkan, I386)
    /\ result.value = FALSE

\* what holds without ldconfig whatever populate_libraries inserts: construction
\* does not raise, the Inventory holds no record, every requirement of the host
\* misses its whole declared list on every runtime architecture
NoLdconfigNoRecords ==
    "ldconfig" \notin commands /\ Built =>
        /\ pc # "raised"
        /\ \A k \in Keys(shared_libraries) : Get(shared_libraries, k) = <<>>
        /\ pc = "ready" =>
              \A req \in Range(requirements) :
                  get_missing_requirement_libs(req)
                      = [k \in 1..Len(runtime_architectures) |-> Range(LIBRARIES[req])]

\* C8 as claimed: without ldconfig construction does not raise, the Inventory is
\* empty, and every requirement of the host misses its whole declared list on
\* every runtime architecture.
C8_no_ldconfig_empty_inventory ==
    "ldconfig" \notin commands /\ Built =>
        /\ NoLdconfigNoRecords
        /\ shared_libraries = EmptyDict

\* C9: the runtime architectures are [i386, x86_64] exactly when the resolved
\* architecture is x86_64, and [i386] for i386, i686 (resolved to i386), armv7 and
\* an unsupported machine.
C9_runtime_architectures ==
    pc \notin {"new", "commands"} =>
        /\ (runtime_architectures = <<<<"i386">>, <<"x86", "_", "64">>>>) = (arch = <<"x86", "_", "64">>)
        /\ arch # <<"x86", "_", "64">> => runtime_architectures = <<<<"i386">>>>
        /\ (arch = <<"x86", "_", "64">>) = (machine = <<"x86", "_", "64">>)
        /\ machine \in {<<"i386">>, <<"i686">>} => arch = <<"i386">>
        /\ machine = <<"armv7", "l">> => arch = <<"armv7">>
        /\ machine = <<"aarch64">> => arch = None

\* C9's case: on an armv7l host, once the architecture is resolved, the runtime
\* architectures are [i386].
C9_witness ==
    /\ pc = "arch"
    /\ machine = <<"armv7", "l">>
    /\ arch = <<"armv7">>
    /\ runtime_architectures = <<<<"i386">>>>

(* The directories of the Inventory's records, counted from the Inventory itself. *)

\* where the Inventory holds a record: entry k of the Inventory, place i of its list
RecordSlots ==
    UNION {{<<k, i>> : i \in 1..Len(shared_libraries[k].val)} : k \in 1..Len(shared_libraries)}

DirOf(slot) == lib_dirname(shared_libraries[slot[1]].val[slot[2]])

\* the number of Inventory records a directory holds
Holds(d) == Cardinality({slot \in RecordSlots : DirOf(slot) = d})

\* slot s is met before slot t when the Inventory is read entry by entry
MetBefore(s, t) == s[1] < t[1] \/ (s[1] = t[1] /\ s[2] < t[2])

\* a directory holding records is first met before another one
FirstMetBefore(d, e) ==
    \E s \in RecordSlots :
        /\ DirOf(s) = d
        /\ \A t \in RecordSlots : DirOf(t) = e => MetBefore(s, t)

\* C11: in the sequence yielded by iter_lib_folders every directory that holds an
\* Inventory record is yielded, and before any directory that only the multi-arch
\* table contributes; the Inventory's directories come in non-increasing order of
\* the number of records they hold, equal counts in the order first met in the
\* Inventory.
C11_inventory_folders_first_by_count ==
    it >= 1 =>
        /\ \A slot \in RecordSlots : DirOf(slot) \in YieldedPaths
        /\ \A i, j \in 1..Len(yielded) :
              Holds(yielded[i].path) > 0 /\ Holds(yielded[j].path) = 0 => i < j
        /\ \A i, j \in 1..Len(yielded) :
              i < j /\ Holds(yielded[i].path) > 0 /\ Holds(yielded[j].path) > 0 =>
                  /\ Holds(yielded[i].path) >= Holds(yielded[j].path)
                  /\ Holds(yielded[i].path) = Holds(yielded[j].path)
                        => FirstMetBefore(yielded[i].path, yielded[j].path)

\* C11's case: the iteration is complete; the directory yielded first holds two
\* records although the one yielded second, which holds one, was met first in the
\* Inventory; the last directory yielded comes from the table alone.
C11_witness ==
    /\ IterDone
    /\ Len(yielded) >= 3
    /\ Holds(yielded[1].path) = 2
    /\ Holds(yielded[2].path) = 1
    /\ FirstMetBefore(yielded[2].path, yielded[1].path)
    /\ Holds(yielded[Len(yielded)].path) = 0
    /\ yielded[Len(yielded)].src > 0

====
